---- MODULE Spec2Model ----
(***************************************************************************)
(* Model of dashboardBetav1.py: a Tk dashboard that loads (or synthesises) *)
(* a table of power-grid equipment, fits a Cox model to it and redraws a   *)
(* set of derived views for the selected record.                           *)
(*                                                                         *)
(* Numbers are fixed-point integers: megawatts as whole MW, utilisation in *)
(* thousandths, temperature in tenths, wind in hundredths, probabilities   *)
(* in percent, hazards and hazard ratios in hundredths.                    *)
(* Column names are the source's names transliterated to ASCII.            *)
(***************************************************************************)
EXTENDS Integers, Sequences, FiniteSets, TLC

\* ---------------------------------------------------------------- bounds
MaxSeed == 2          \* the random generator's draws are numbered 1..MaxSeed
MaxIndex == 1         \* largest small index typed into the spinbox
MaxCsvRows == 2       \* rows of a regular input file
SkewRows == 6         \* rows of a skewed input file
MaxHazard == 130      \* largest probed partial hazard, in hundredths
MaxCurve == 4         \* points of a probed survival curve
MaxProbeRows == 4     \* rows of a probed load column
MaxProbeVal == 3      \* largest load of a probed load column
MaxCoef == 3          \* rows of a probed coefficient table

\* ------------------------------------------------------ program constants
StartupN == 120       \* generate_random_data(120), the startup fallback
RegenN == 150         \* generate_random_data(150), regenerate

ID_COL == "id"
NAME_COL == "name"
TYPE_COL == "type"
GROUP_COL == "_group"
DURATION_COL == "duration"
EVENT_COL == "event"
LOAD_COL == "load_mw"
POWER_COL == "capacity_mw"
UTIL_COL == "utilization"
FEATURE_COLUMNS ==
  <<"load_mw", "capacity_mw", "utilization", "temperature_c", "wind_m_s",
    "holiday", "age_years">>

SeqToSet(s) == {s[i] : i \in DOMAIN s}
Min2(a, b) == IF a < b THEN a ELSE b
Max2(a, b) == IF a > b THEN a ELSE b

\* str(v): a text, never equal to the number it was made from.
Str(v) == <<"str", v>>

\* ------------------------------------------------------------ data frame
\* A data frame is [columns: the set of column names, rows: a sequence of
\* functions from the column names to values].
LenDf(df) == Len(df.rows)

Column(df, c) == [i \in 1..LenDf(df) |-> df.rows[i][c]]

\* df[c] = vals
SetColumn(df, c, vals) ==
  [columns |-> df.columns \cup {c},
   rows |-> [i \in 1..LenDf(df) |-> (c :> vals[i]) @@ df.rows[i]]]

\* df.iloc[idx] misread as one-based: the row before the selected one.
IlocOneBased(df, idx) ==
  IF idx < 0 THEN df.rows[LenDf(df) + idx + 1] ELSE df.rows[Max2(1, idx)]

\* df.iloc[idx]: a negative position counts from the end.
Iloc(df, idx) == IF idx < 0 THEN df.rows[LenDf(df) + idx + 1] ELSE df.rows[idx + 1]

\* df[[DURATION_COL, EVENT_COL] + FEATURE_COLUMNS]
RequiredColumns == <<DURATION_COL, EVENT_COL>> \o FEATURE_COLUMNS

\* ensure_columns: the missing columns, in order; it raises when there are any.
MissingColumns(df, required_cols) ==
  SelectSeq(required_cols, LAMBDA c : c \notin df.columns)

\* --------------------------------------------------------- the generator
\* One value of the random generator, in lo..lo+span-1: the draw (seed) and
\* the row decide it.
Draw(seed, i, k, lo, span) == lo + ((seed * (131 + i * k)) % span)

infer_type_by_power(p) ==
  IF p > 6000 THEN "Generator" ELSE IF p > 5200 THEN "Substation" ELSE "Line"

ElementName(id) == <<"Element-", Str(id)>>

GeneratedColumns ==
  {ID_COL, DURATION_COL, EVENT_COL, NAME_COL, TYPE_COL} \cup SeqToSet(FEATURE_COLUMNS)

\* Row i of generate_random_data (lines 38-59).
RandomRow(seed, i) ==
  LET power == Draw(seed, i, 1709, 4000, 3000) IN
  [id |-> i,
   duration |-> Draw(seed, i, 7, 10, 190),
   event |-> Draw(seed, (i * (i + 1)) \div 2, 1, 0, 2),
   load_mw |-> Draw(seed, i, 1013, 3000, 3000),
   capacity_mw |-> power,
   utilization |-> Draw(seed, i, 37, 500, 400),
   temperature_c |-> Draw(seed, i, 73, -200, 550),
   wind_m_s |-> Draw(seed, i, 487, 0, 1500),
   holiday |-> Draw(seed, i \div 3, 1, 0, 2),
   age_years |-> Draw(seed, i, 11, 1, 49),
   name |-> ElementName(i),
   type |-> infer_type_by_power(power)]

generate_random_data(n, seed) ==
  [columns |-> GeneratedColumns, rows |-> [i \in 1..n |-> RandomRow(seed, i)]]

\* ---------------------------------------------------------- the Cox model
\* The sum of f[lo..hi], by halves.
RECURSIVE SumRange(_, _, _)
SumRange(f, lo, hi) ==
  IF lo > hi THEN 0
  ELSE IF lo = hi THEN f[lo]
  ELSE LET mid == (lo + hi) \div 2 IN SumRange(f, lo, mid) + SumRange(f, mid + 1, hi)

SumTo(f, n) == SumRange(f, 1, n)

\* CoxPHFitter.fit stands for the library: the fitted parameters are a
\* function of the training columns alone (a digest of them here).
HazardRatio(df, f) ==
  50 + (SumTo([i \in 1..LenDf(df) |->
                 df.rows[i][f] * (1 + df.rows[i][EVENT_COL]) + df.rows[i][DURATION_COL]],
              LenDf(df)) % 101)

\* Whether CoxPHFitter.fit converges on the frame: it raises when no
\* covariate varies between the rows.
Converges(df) ==
  \E i \in 1..LenDf(df), f \in SeqToSet(FEATURE_COLUMNS) :
    df.rows[i][f] # df.rows[1][f]

\* train_cox_model(df.copy()), when the fit converges.
train_cox_model(df) ==
  [n |-> LenDf(df),
   summary |-> [f \in SeqToSet(FEATURE_COLUMNS) |-> HazardRatio(df, f)]]

\* cph.predict_partial_hazard(row), in hundredths.
predict_partial_hazard(cph, row) ==
  SumTo([k \in 1..Len(FEATURE_COLUMNS) |->
           cph.summary[FEATURE_COLUMNS[k]] * row[FEATURE_COLUMNS[k]]],
        Len(FEATURE_COLUMNS)) % 200

TimeGrid == <<0, 50, 100, 150, 200>>

\* cph.predict_survival_function(row): (time, percent) points, non-increasing.
predict_survival_function(cph, row) ==
  [k \in 1..Len(TimeGrid) |->
     [t |-> TimeGrid[k],
      p |-> Max2(0, 100 - (predict_partial_hazard(cph, row) * TimeGrid[k]) \div 100)]]

\* cph.predict_cumulative_hazard(row): (time, hazard) points, non-decreasing.
predict_cumulative_hazard(cph, row) ==
  [k \in 1..Len(TimeGrid) |->
     [t |-> TimeGrid[k],
      h |-> (predict_partial_hazard(cph, row) * TimeGrid[k]) \div 100]]

\* ------------------------------------------------------ derived views
\* np.argmax(mask): the first position holding the largest value (TRUE
\* before FALSE), 1-based.
ArgMax(mask) ==
  LET top == \E i \in DOMAIN mask : mask[i] IN
  CHOOSE i \in DOMAIN mask :
    /\ mask[i] = top
    /\ \A j \in DOMAIN mask : j < i => mask[j] # top

\* The median with a strict comparison: yvals < 0.5.
MedianSurvivalTimeStrict(surv) ==
  LET mask == [i \in DOMAIN surv |-> surv[i].p < 50] IN
  IF \E i \in DOMAIN mask : mask[i] THEN <<surv[ArgMax(mask)].t>> ELSE <<>>

\* Median survival time of a curve, <<>> when there is none:
\* mask = yvals <= 0.5; if mask.any(): t50 = surv.index[np.argmax(mask)]
MedianSurvivalTime(surv) ==
  LET mask == [i \in DOMAIN surv |-> surv[i].p <= 50] IN
  IF \E i \in DOMAIN mask : mask[i] THEN <<surv[ArgMax(mask)].t>> ELSE <<>>

\* The risk label with inclusive thresholds: <= 0.8, <= 1.2.
RiskBucketInclusive(risk_score) ==
  IF risk_score <= 80 THEN "Low"
  ELSE IF risk_score <= 120 THEN "Moderate"
  ELSE "High"

\* The risk label of a partial hazard (hundredths): < 0.8, < 1.2, else.
RiskBucket(risk_score) ==
  IF risk_score < 80 THEN "Low"
  ELSE IF risk_score < 120 THEN "Moderate"
  ELSE "High"

\* Series.min() and Series.max() of f[lo..hi], by halves.
RECURSIVE MinRange(_, _, _)
MinRange(f, lo, hi) ==
  IF lo = hi THEN f[lo]
  ELSE LET mid == (lo + hi) \div 2 IN Min2(MinRange(f, lo, mid), MinRange(f, mid + 1, hi))
RECURSIVE MaxRange(_, _, _)
MaxRange(f, lo, hi) ==
  IF lo = hi THEN f[lo]
  ELSE LET mid == (lo + hi) \div 2 IN Max2(MaxRange(f, lo, mid), MaxRange(f, mid + 1, hi))
SeqMin(f) == MinRange(f, 1, Len(f))
SeqMax(f) == MaxRange(f, 1, Len(f))

\* The percentage taken from zero instead of from the column's minimum.
NormalizedLoadFromZero(curr_load, min_load, max_load) ==
  LET den == IF max_load > min_load THEN max_load - min_load ELSE 1
      raw == IF max_load > min_load THEN curr_load * 100 ELSE 0
  IN [num |-> Max2(0, Min2(100 * den, raw)), den |-> den]

\* The load gauge's percentage as the fraction num/den (den > 0), clamped
\* to [0, 100]; 0 when the column's minimum and maximum coincide.
NormalizedLoad(curr_load, min_load, max_load) ==
  LET den == IF max_load > min_load THEN max_load - min_load ELSE 1
      raw == IF max_load > min_load THEN (curr_load - min_load) * 100 ELSE 0
  IN [num |-> Max2(0, Min2(100 * den, raw)), den |-> den]

\* df[var].nunique()
nunique(vals) == Cardinality(SeqToSet(vals))

\* Three times the k/3 quantile of the sorted values s (linear
\* interpolation between the two neighbouring order statistics).
Quantile3(s, k) ==
  LET pos == (Len(s) - 1) * k
      lo == pos \div 3
      r == pos % 3
  IN IF r = 0 THEN 3 * s[lo + 1]
     ELSE 3 * s[lo + 1] + r * (s[lo + 2] - s[lo + 1])

RECURSIVE DropDuplicates(_)
DropDuplicates(e) ==
  IF Len(e) <= 1 THEN e
  ELSE LET front == SubSeq(e, 1, Len(e) - 1) IN
       IF e[Len(e)] = e[Len(e) - 1] THEN DropDuplicates(front)
       ELSE Append(DropDuplicates(front), e[Len(e)])

\* The bin edges (times three) of pd.qcut(x, q=3, duplicates="drop"): the
\* quantiles 0, 1/3, 2/3, 1 with equal edges dropped.
QcutBins(vals) ==
  LET s == SortSeq(vals, LAMBDA a, b : a < b) IN
  DropDuplicates([k \in 1..4 |-> Quantile3(s, k - 1)])

QcutLabels == <<"Low", "Medium", "High">>

\* The bin of a value: bins.searchsorted(x, side="left"), the lowest edge
\* included in the first bin.
BinOf(x3, bins) ==
  IF x3 = bins[1] THEN 1 ELSE Cardinality({k \in DOMAIN bins : bins[k] < x3})

\* pd.qcut(df[var], q=3, labels=[...three...], duplicates="drop"): pandas
\* raises ValueError ("Bin labels must be one fewer than the number of bin
\* edges") when dropping duplicate edges leaves fewer than three bins.
qcut(vals) ==
  LET bins == QcutBins(vals) IN
  IF Len(QcutLabels) # Len(bins) - 1
  THEN [raised |-> TRUE, labels |-> <<>>]
  ELSE [raised |-> FALSE,
        labels |-> [i \in DOMAIN vals |-> QcutLabels[BinOf(3 * vals[i], bins)]]]

\* The "_group" column for the covariate's values (lines 315-323): quantile
\* buckets for a numeric covariate with more than 3 distinct values, the
\* value as text otherwise.
GroupColumn(vals, is_numeric) ==
  IF is_numeric /\ nunique(vals) > 3
  THEN qcut(vals)
  ELSE [raised |-> FALSE, labels |-> [i \in DOMAIN vals |-> Str(vals[i])]]

\* The grouped curves (lines 325-331): one Kaplan-Meier fit per value of
\* the "_group" column, on the rows carrying it; a value whose mask is
\* empty is skipped. A curve is kept as the rows it was fitted on.
GroupSurvival(labels) ==
  LET present == SeqToSet(labels)
      mask(val) == {i \in DOMAIN labels : labels[i] = val}
  IN [val \in {v \in present : Cardinality(mask(v)) # 0} |-> mask(val)]

\* ------------------------------------------------------------ the session
VARIABLES
  pc,              \* "start", "running" (the event loop), "crashed" (startup raised)
  df,              \* the data frame
  cph,             \* the fitted model
  source_label,    \* where the data came from
  obj_var,         \* the spinbox's text: [ok, val], ok = FALSE for a non-integer
  spin_to,         \* the spinbox's upper limit
  id_var,          \* the identifier shown in the id combobox
  id_values,       \* the id combobox's list
  group_var,       \* the grouping covariate shown in the group combobox
  groupable_vars,  \* the group combobox's list
  view,            \* what each derived view shows
  message,         \* the last dialog or uncaught exception of the last operation
  show_details,    \* whether the detail panel is packed (visible)
  last_op,         \* the operation that led to this state: "startup", "input"
                   \* (a widget edited, no handler bound), "select_by_id",
                   \* "refresh" or "regenerate", how it ended, and for
                   \* regenerate the spinbox text it found
  probe            \* a derived-view function applied to a drawn input

vars ==
  <<pc, df, cph, source_label, obj_var, spin_to, id_var, id_values, group_var,
    groupable_vars, view, message, show_details, last_op, probe>>

NoMessage == [kind |-> "none", detail |-> <<>>]
NoProbe == [fn |-> "none", arg |-> 0, out |-> <<>>]
IntText(n) == [ok |-> TRUE, val |-> n]
JunkText == [ok |-> FALSE, val |-> 0]

\* The widgets before the first redraw: a view is <<>> while blank and
\* <<content>> once drawn.
BlankView ==
  [surv |-> <<>>, hr |-> <<>>, ch |-> <<>>, groups |-> <<>>, risk |-> <<>>,
   load |-> <<>>, summary |-> <<>>, details |-> <<>>, report |-> <<>>]

\* The guard without its lower limit.
IndexPastEnd(idx, n) == idx >= n

\* Line 244: the guard of update_dashboard.
IndexOutOfRange(idx, n) == idx < 0 \/ idx >= n

\* Lines 238-242: int(obj_var.get()), 0 when the text is no integer (and
\* the spinbox is then set to 0).
ReadIndex(text) == IF text.ok THEN text.val ELSE 0

\* Lines 306-313: the covariate the grouped view uses, <<>> when none.
GroupingVariable(var, columns, groupable) ==
  IF var \in columns THEN <<var>>
  ELSE IF groupable # <<>> THEN <<groupable[1]>>
  ELSE <<>>

\* Lines 250-298: the id combobox, the survival curve, the hazard-ratio
\* chart and the cumulative hazard curve of the row at idx.
DrawCurves(s, idx) ==
  LET row == Iloc(s.df, idx)
      surv == predict_survival_function(s.cph, row)
  IN [s EXCEPT
        !.id_var = IF ID_COL \in s.df.columns THEN Str(row[ID_COL]) ELSE s.id_var,
        !.view.surv = <<[idx |-> idx, curve |-> surv, t50 |-> MedianSurvivalTime(surv)]>>,
        !.view.hr = <<[bars |-> s.cph.summary]>>,
        !.view.ch = <<[idx |-> idx, curve |-> predict_cumulative_hazard(s.cph, row)]>>]

\* cph.summary as a table: one row per fitted covariate, in the order of
\* FEATURE_COLUMNS.
SummaryRows(summary) ==
  LET fitted == SelectSeq(FEATURE_COLUMNS, LAMBDA f : f \in DOMAIN summary) IN
  [k \in 1..Len(fitted) |-> [feature |-> fitted[k], hr |-> summary[fitted[k]]]]

\* summary["exp(coef)"].sub(1).abs(), in hundredths.
Deviation(hr_val) == IF hr_val >= 100 THEN hr_val - 100 ELSE 100 - hr_val

\* sort_values(ascending=False) puts a row after the rows already placed
\* whose key is not smaller.
InsertByDeviation(sorted, r) ==
  LET k == Cardinality({j \in DOMAIN sorted :
                          Deviation(sorted[j].hr) >= Deviation(r.hr)})
  IN SubSeq(sorted, 1, k) \o <<r>> \o SubSeq(sorted, k + 1, Len(sorted))

\* Lines 403-405: the table reindexed by descending |exp(coef) - 1|.
RECURSIVE SortByDeviation(_)
SortByDeviation(rows) ==
  IF rows = <<>> THEN <<>>
  ELSE InsertByDeviation(SortByDeviation(SubSeq(rows, 1, Len(rows) - 1)),
                         rows[Len(rows)])

\* The effect with inclusive thresholds: >= 1.1, <= 0.9.
EffectOfInclusive(hr_val) ==
  IF hr_val >= 110 THEN "increases"
  ELSE IF hr_val <= 90 THEN "decreases"
  ELSE "negligible"

\* Lines 411-416: the effect of a hazard ratio (hundredths).
EffectOf(hr_val) ==
  IF hr_val > 110 THEN "increases"
  ELSE IF hr_val < 90 THEN "decreases"
  ELSE "negligible"

\* Lines 406-420: the report's line for a row; percent is (hr - 1) * 100
\* and the line shows it for an increase, its magnitude for a decrease and
\* no percentage otherwise.
ReportLine(r) ==
  LET percent == r.hr - 100
      effect == EffectOf(r.hr)
  IN [feature |-> r.feature, hr |-> r.hr, effect |-> effect, percent |-> percent,
      shown |-> IF effect = "increases" THEN <<percent>>
                ELSE IF effect = "decreases" THEN <<Deviation(r.hr)>>
                ELSE <<>>]

\* Lines 400-424: the report of a coefficient table, a placeholder when the
\* table is empty.
Report(rows) ==
  IF rows = <<>>
  THEN [placeholder |-> TRUE, lines |-> <<>>, top |-> <<>>]
  ELSE LET sorted_summary == SortByDeviation(rows) IN
       [placeholder |-> FALSE,
        lines |-> [k \in 1..Len(sorted_summary) |-> ReportLine(sorted_summary[k])],
        top |-> <<sorted_summary[1].feature>>]

\* Lines 339-424: the risk label, the load gauge, the summary card, the
\* detail panel and the report of the row at idx.
DrawRecord(s, idx) ==
  LET row == Iloc(s.df, idx)
      cols == s.df.columns
      risk == RiskBucket(predict_partial_hazard(s.cph, row))
      loads == Column(s.df, LOAD_COL)
      opt(c) == IF c \in cols THEN <<row[c]>> ELSE <<>>
  IN [s EXCEPT
        !.view.risk = <<[text |-> risk]>>,
        !.view.load =
           <<[curr |-> row[LOAD_COL],
              pct |-> NormalizedLoad(row[LOAD_COL],
                                     SeqMin(loads), SeqMax(loads))]>>,
        !.view.summary =
           <<[name |-> opt(NAME_COL), type |-> opt(TYPE_COL), id |-> opt(ID_COL),
              load |-> row[LOAD_COL], power |-> row[POWER_COL], util |-> row[UTIL_COL]]>>,
        !.view.details =
           <<[full_row |-> row,
              inferred |-> IF TYPE_COL \notin cols THEN <<"N/A">> ELSE <<>>]>>,
        !.view.report =
           <<[summary |-> s.cph.summary, idx |-> idx, risk |-> risk,
              effects |-> Report(SummaryRows(s.cph.summary))]>>]

\* update_dashboard (lines 236-424) on the session s; the result's outcome
\* is "ok", "index_error" (line 246), "no_group" (line 313) or "raised"
\* (pd.qcut raised at line 318 and the exception left the function).
update_dashboard(s) ==
  LET idx == ReadIndex(s.obj_var)
      s0 == IF s.obj_var.ok THEN s ELSE [s EXCEPT !.obj_var = IntText(0)]
  IN
  IF IndexOutOfRange(idx, LenDf(s.df))
  THEN [s0 EXCEPT !.message = [kind |-> "error", detail |-> <<idx>>],
                  !.outcome = "index_error"]
  ELSE
    LET s1 == DrawCurves(s0, idx)
        var == GroupingVariable(s1.group_var, s1.df.columns, s1.groupable_vars)
    IN
    IF var = <<>>
    THEN [s1 EXCEPT !.view.groups = <<[var |-> "", curves |-> <<>>]>>,
                    !.outcome = "no_group"]
    ELSE
      LET grp == GroupColumn(Column(s1.df, var[1]), TRUE) IN
      IF grp.raised
      THEN [s1 EXCEPT !.group_var = var[1],
                      !.view.groups = <<>>,
                      !.message = [kind |-> "exception", detail |-> <<"ValueError">>],
                      !.outcome = "raised"]
      ELSE
        LET s2 == [s1 EXCEPT
                     !.group_var = var[1],
                     !.df = SetColumn(s1.df, GROUP_COL, grp.labels),
                     !.view.groups =
                        <<[var |-> var[1], curves |-> GroupSurvival(grp.labels)]>>]
        IN [DrawRecord(s2, idx) EXCEPT !.outcome = "ok"]

\* --------------------------------------------------------- the input file
\* cox_energy_dataset.csv is drawn from a family of tables: the optional
\* columns it carries, a required column it may lack, its shape and its
\* number of rows.
OptionalColumns == {ID_COL, NAME_COL, TYPE_COL}
CsvShapes == {"regular", "skewed", "tied_load"}
PowerSamples == <<5200, 6001, 6000, 5201, 7000, 4000>>

\* The value at row i (of n) of column c. A regular table has distinct ids,
\* loads 100 MW apart and capacities on both sides of the category
\* thresholds; a skewed table repeats its ids in pairs and has the lower
\* half of its ages equal; a tied_load table has the lower half of its
\* loads equal.
CsvRow(shape, n, i) ==
  [id |-> IF shape = "regular" THEN 100 + i ELSE (i + 1) \div 2,
   name |-> <<"Unit-", Str(i)>>,
   type |-> "Transformer",
   duration |-> 10 * i,
   event |-> i % 2,
   load_mw |-> IF shape = "tied_load" /\ 2 * i <= n THEN 3000 ELSE 3000 + 100 * i,
   capacity_mw |-> PowerSamples[((i - 1) % Len(PowerSamples)) + 1],
   utilization |-> 500 + 10 * i,
   temperature_c |-> 50 * i - 200,
   wind_m_s |-> 100 * i,
   holiday |-> (i \div 2) % 2,
   age_years |-> IF shape = "skewed" /\ 2 * i <= n THEN 1 ELSE i]

CsvSizes(shape) == IF shape = "regular" THEN 1..MaxCsvRows ELSE {SkewRows}

CsvTable(shape, n, columns) ==
  [columns |-> columns,
   rows |-> [i \in 1..n |-> [c \in columns |-> CsvRow(shape, n, i)[c]]]]

\* At most one required column is missing.
LackChoices == {DURATION_COL, "age_years"}
CsvColumnSets ==
  {(SeqToSet(RequiredColumns) \ lacking) \cup optional :
     optional \in SUBSET OptionalColumns,
     lacking \in {{}} \cup {{c} : c \in LackChoices}}

\* The covariates the user picks in the group combobox.
GroupChoices == {"load_mw", "age_years"}

\* ------------------------------------------------------------- startup
EmptyDf == [columns |-> {}, rows |-> <<>>]
NoModel == [n |-> 0, summary |-> <<>>]

Init ==
  /\ pc = "start"
  /\ df = EmptyDf
  /\ cph = NoModel
  /\ source_label = ""
  /\ obj_var = IntText(0)
  /\ spin_to = 0
  /\ id_var = <<>>
  /\ id_values = <<>>
  /\ group_var = ""
  /\ groupable_vars = <<>>
  /\ view = BlankView
  /\ message = NoMessage
  /\ show_details = FALSE
  /\ last_op = [op |-> "none", outcome |-> "ok", reset_from |-> <<>>]
  /\ probe = NoProbe

\* The session as one record, the argument and result of the handlers.
Session ==
  [df |-> df, cph |-> cph, source_label |-> source_label, obj_var |-> obj_var,
   spin_to |-> spin_to, id_var |-> id_var, id_values |-> id_values,
   group_var |-> group_var, groupable_vars |-> groupable_vars, view |-> view,
   message |-> message, outcome |-> "ok", reset_from |-> <<>>]

Install(s, op) ==
  /\ df' = s.df
  /\ cph' = s.cph
  /\ source_label' = s.source_label
  /\ obj_var' = s.obj_var
  /\ spin_to' = s.spin_to
  /\ id_var' = s.id_var
  /\ id_values' = s.id_values
  /\ group_var' = s.group_var
  /\ groupable_vars' = s.groupable_vars
  /\ view' = s.view
  /\ message' = s.message
  /\ last_op' = [op |-> op, outcome |-> s.outcome, reset_from |-> s.reset_from]

\* Startup raised while df was bound to d: the process ends without a
\* session.
Crash(exception, d) ==
  /\ pc' = "crashed"
  /\ df' = d
  /\ message' = [kind |-> "exception", detail |-> <<exception>>]
  /\ last_op' = [op |-> "startup", outcome |-> "raised", reset_from |-> <<>>]
  /\ UNCHANGED <<cph, source_label, obj_var, spin_to, id_var, id_values,
                 group_var, groupable_vars, view, show_details, probe>>

\* Lines 83-92: the category of a row that carries none.
infer_type_row(r) ==
  LET p == IF POWER_COL \in DOMAIN r THEN r[POWER_COL] ELSE 0 IN
  IF p > 6000 THEN "Generator" ELSE IF p > 5200 THEN "Substation" ELSE "Line"

\* Line 80 reads df["id"]: a KeyError when the frame has no identifier.
BackfillNameRaises(d) == NAME_COL \notin d.columns /\ ID_COL \notin d.columns

\* Lines 79-80: the display name, made from the identifier.
BackfillName(d) ==
  IF NAME_COL \in d.columns THEN d
  ELSE SetColumn(d, NAME_COL, [i \in 1..LenDf(d) |-> ElementName(d.rows[i][ID_COL])])

\* Lines 81-93: the category, inferred from the capacity.
BackfillType(d) ==
  IF TYPE_COL \in d.columns THEN d
  ELSE SetColumn(d, TYPE_COL, [i \in 1..LenDf(d) |-> infer_type_row(d.rows[i])])

\* Lines 145-148, 442-444: the id combobox's list.
IdList(d) ==
  IF ID_COL \in d.columns THEN [i \in 1..LenDf(d) |-> Str(d.rows[i][ID_COL])]
  ELSE [i \in 1..LenDf(d) |-> Str(i - 1)]

\* Lines 221, 435: the covariates the frame carries.
Groupable(d) == SelectSeq(FEATURE_COLUMNS, LAMBDA c : c \in d.columns)

\* Lines 64-77: the try block and its fallback. The result is the data
\* frame, the model, the label and the warning; "fatal" when the fallback's
\* own fit raised.
LoadOrFallback(readable, table, seed) ==
  LET missing == MissingColumns(table, RequiredColumns)
      reason == IF ~readable THEN <<"read_csv">>
                ELSE IF missing # <<>> THEN <<"missing columns">> \o missing
                ELSE <<"fit">>
      random == generate_random_data(StartupN, seed)
  IN
  IF readable /\ missing = <<>> /\ Converges(table)
  THEN [fatal |-> FALSE, df |-> table, cph |-> train_cox_model(table),
        source_label |-> "cox_energy_dataset.csv", message |-> NoMessage]
  ELSE IF Converges(random)
  THEN [fatal |-> FALSE, df |-> random, cph |-> train_cox_model(random),
        source_label |-> "random data",
        message |-> [kind |-> "warning", detail |-> reason]]
  ELSE [fatal |-> TRUE, df |-> random, cph |-> NoModel,
        source_label |-> "", message |-> NoMessage]

\* Lines 78-484 on the loaded (or synthesised) frame: back-fill, the
\* widgets' first values and the first update_dashboard.
StartSession(got) ==
  IF got.fatal THEN Crash("FitError", got.df)
  ELSE IF BackfillNameRaises(got.df) THEN Crash("KeyError", got.df)
  ELSE
    LET d == BackfillType(BackfillName(got.df))
        id_list == IdList(d)
        s == [df |-> d, cph |-> got.cph, source_label |-> got.source_label,
              obj_var |-> IntText(0), spin_to |-> Max2(0, LenDf(d) - 1),
              id_var |-> IF id_list # <<>> THEN id_list[1] ELSE <<>>,
              id_values |-> id_list,
              group_var |-> IF Groupable(d) # <<>> THEN Groupable(d)[1]
                            ELSE FEATURE_COLUMNS[1],
              groupable_vars |-> Groupable(d), view |-> BlankView,
              message |-> got.message, outcome |-> "ok", reset_from |-> <<>>]
        r == update_dashboard(s)
    IN
    IF r.outcome = "raised" THEN Crash("ValueError", d)
    ELSE /\ pc' = "running"
         /\ Install(r, "startup")
         /\ UNCHANGED <<show_details, probe>>

\* run_dashboard up to root.mainloop() (lines 62-484).
Startup ==
  /\ pc = "start"
  /\ \E readable \in BOOLEAN, shape \in CsvShapes, columns \in CsvColumnSets,
        seed \in 1..MaxSeed :
       \E n \in CsvSizes(shape) :
         StartSession(LoadOrFallback(readable, CsvTable(shape, n, columns), seed))

\* ------------------------------------------------------- the event loop
SelectIndices == (-1..MaxIndex) \cup {RegenN}

\* The user types an index, or something that is no integer, into the
\* spinbox: no handler is bound to it.
SelectIndex ==
  /\ pc = "running"
  /\ \E text \in {IntText(i) : i \in SelectIndices} \cup {JunkText} :
       obj_var' = text
  /\ message' = NoMessage
  /\ last_op' = [op |-> "input", outcome |-> "ok", reset_from |-> <<>>]
  /\ UNCHANGED <<pc, df, cph, source_label, spin_to, id_var, id_values,
                 group_var, groupable_vars, view, show_details, probe>>

\* Lines 155-162: the positions whose identifier, as text, is sel.
MatchingIndices(d, sel) ==
  IF ID_COL \in d.columns
  THEN SelectSeq([i \in 1..LenDf(d) |-> i - 1],
                 LAMBDA i : Str(d.rows[i + 1][ID_COL]) = sel)
  ELSE <<>>

\* on_id_change taking the last matching position instead of the first.
on_id_change_last(s, sel) ==
  LET idxs == MatchingIndices(s.df, sel) IN
  [s EXCEPT !.id_var = sel,
            !.obj_var = IF idxs # <<>> THEN IntText(idxs[Len(idxs)]) ELSE s.obj_var]

\* on_id_change (lines 153-162) on the text sel picked in the id combobox.
on_id_change(s, sel) ==
  LET idxs == MatchingIndices(s.df, sel) IN
  [s EXCEPT !.id_var = sel,
            !.obj_var = IF idxs # <<>> THEN IntText(idxs[1]) ELSE s.obj_var]

\* The user picks one of the first entries of the id combobox.
SelectById ==
  /\ pc = "running"
  /\ \E k \in 1..Min2(Len(id_values), MaxIndex + 1) :
       Install(on_id_change([Session EXCEPT !.message = NoMessage], id_values[k]),
               "select_by_id")
  /\ UNCHANGED <<pc, show_details, probe>>

\* The user picks a covariate in the group combobox (lines 224-226): no
\* handler is bound to it.
ChangeGrouping ==
  /\ pc = "running"
  /\ \E c \in SeqToSet(groupable_vars) \cap GroupChoices : group_var' = c
  /\ message' = NoMessage
  /\ last_op' = [op |-> "input", outcome |-> "ok", reset_from |-> <<>>]
  /\ UNCHANGED <<pc, df, cph, source_label, obj_var, spin_to, id_var, id_values,
                 groupable_vars, view, show_details, probe>>

\* The refresh button (line 462): update_dashboard.
Refresh ==
  /\ pc = "running"
  /\ Install(update_dashboard([Session EXCEPT !.message = NoMessage]), "refresh")
  /\ UNCHANGED <<pc, show_details, probe>>

\* regenerate_data without line 430: the spinbox keeps its text.
KeepSelection(text) == text

\* Line 430: obj_var.set(0).
ResetSelection(text) == IntText(0)

\* regenerate_data (lines 426-456). When the fit raises (line 429) the new
\* frame is already bound to df and nothing else has changed.
regenerate_data(s, seed) ==
  LET random == generate_random_data(RegenN, seed)
      d == BackfillType(BackfillName(random))
      new_ids == IdList(d)
      groupable == Groupable(d)
  IN
  IF ~Converges(random)
  THEN [s EXCEPT !.df = random,
                 !.reset_from = <<s.obj_var>>,
                 !.message = [kind |-> "exception", detail |-> <<"FitError">>],
                 !.outcome = "raised"]
  ELSE update_dashboard(
         [s EXCEPT
            !.df = d,
            !.cph = train_cox_model(d),
            !.obj_var = ResetSelection(s.obj_var),
            !.reset_from = <<s.obj_var>>,
            !.source_label = "random data",
            !.groupable_vars = groupable,
            !.group_var = IF groupable # <<>> THEN groupable[1] ELSE s.group_var,
            !.id_values = new_ids,
            !.id_var = IF new_ids # <<>> THEN new_ids[1] ELSE s.id_var,
            !.spin_to = Max2(0, LenDf(d) - 1)])

\* The regenerate button (line 461).
Regenerate ==
  /\ pc = "running"
  /\ \E seed \in 1..MaxSeed :
       Install(regenerate_data([Session EXCEPT !.message = NoMessage], seed),
               "regenerate")
  /\ UNCHANGED <<pc, show_details, probe>>

\* toggle_details (lines 465-473): the detail panel is shown or hidden; its
\* text is whatever the last update_dashboard wrote.
toggle_details ==
  /\ pc = "running"
  /\ show_details' = ~show_details
  /\ message' = NoMessage
  /\ last_op' = [op |-> "input", outcome |-> "ok", reset_from |-> <<>>]
  /\ UNCHANGED <<pc, df, cph, source_label, obj_var, spin_to, id_var, id_values,
                 group_var, groupable_vars, view, probe>>

Next ==
  \/ Startup
  \/ SelectIndex
  \/ SelectById
  \/ ChangeGrouping
  \/ Refresh
  \/ Regenerate
  \/ toggle_details

Spec == Init /\ [][Next]_vars

\* ------------------------------------------------------------ the claims
\* The views a recompute would show for the current dataset, model,
\* selected index and grouping covariate.
ViewsCurrent ==
  LET idx == IF obj_var.ok THEN obj_var.val ELSE 0
      row == df.rows[idx + 1]
      hazard == predict_partial_hazard(cph, row)
      bucket == IF hazard < 80 THEN "Low" ELSE IF hazard < 120 THEN "Moderate" ELSE "High"
  IN
  /\ obj_var.ok
  /\ idx \in 0..(LenDf(df) - 1)
  /\ \A v \in DOMAIN view : view[v] # <<>>
  /\ view.surv[1].idx = idx
  /\ view.surv[1].curve = predict_survival_function(cph, row)
  /\ view.hr[1].bars = cph.summary
  /\ view.ch[1] = [idx |-> idx, curve |-> predict_cumulative_hazard(cph, row)]
  /\ view.groups[1].var = group_var
  /\ \A i \in 1..LenDf(df) :
       \E g \in DOMAIN view.groups[1].curves :
         i \in view.groups[1].curves[g] /\ df.rows[i][GROUP_COL] = g
  /\ Column(df, GROUP_COL) = GroupColumn(Column(df, group_var), TRUE).labels
  /\ view.risk[1].text = bucket
  /\ view.load[1].curr = row[LOAD_COL]
  /\ view.summary[1].load = row[LOAD_COL]
  /\ view.summary[1].power = row[POWER_COL]
  /\ view.summary[1].util = row[UTIL_COL]
  /\ view.summary[1].name = <<row[NAME_COL]>>
  /\ view.details[1].full_row = row
  /\ view.report[1].summary = cph.summary
  /\ view.report[1].idx = idx
  /\ view.report[1].risk = bucket
  /\ ~view.report[1].effects.placeholder
  /\ {view.report[1].effects.lines[k].feature :
        k \in DOMAIN view.report[1].effects.lines} = DOMAIN cph.summary

\* C1: a startup whose file read, column check or fit fails falls back to
\* the synthesized 120-record dataset with its own model and a warning
\* carrying the reason; every startup that reaches the event loop holds a
\* dataset with the duration, event and seven covariate columns and the
\* model fitted from it; the only startup that ends without a session is
\* the one where the synthetic dataset cannot be fitted.
StartupAlwaysYieldsSession ==
  /\ pc = "crashed" => message.detail = <<"FitError">>
  /\ (pc = "running" /\ last_op.op = "startup") =>
       /\ SeqToSet(RequiredColumns) \subseteq df.columns
       /\ cph = train_cox_model(df)
       /\ message.kind = "warning" =>
            /\ LenDf(df) = StartupN
            /\ source_label = "random data"
            /\ message.detail # <<>>

WithoutScratch(d) ==
  [columns |-> d.columns \ {GROUP_COL},
   rows |-> [i \in 1..LenDf(d) |->
               [c \in (DOMAIN d.rows[i]) \ {GROUP_COL} |-> d.rows[i][c]]]]

\* C3: regenerate is the only operation that changes the dataset and the
\* model; every other operation leaves the dataset's columns and values
\* (the scratch group column apart) and the model as they were, and the
\* scratch group column is never among the record fields a view shows, in
\* particular never in the detail panel.
OnlyRegenerateMutates ==
  [][ /\ (pc = "running" /\ last_op'.op # "regenerate")
           => (WithoutScratch(df') = WithoutScratch(df) /\ cph' = cph)
      /\ (show_details' /\ view'.details # <<>>)
           => GROUP_COL \notin DOMAIN view'.details[1].full_row ]_vars

\* C4: a recompute requested while the selected index is negative or not
\* less than the number of records surfaces an error and changes nothing:
\* no view, not the displayed id, not the dataset, not the model.
OutOfRangeLeavesViewUnchanged ==
  [][ (/\ pc = "running"
       /\ last_op'.op = "refresh"
       /\ obj_var.ok
       /\ (obj_var.val < 0 \/ obj_var.val >= LenDf(df)))
        => /\ message'.kind = "error"
           /\ message'.detail = <<obj_var.val>>
           /\ view' = view
           /\ id_var' = id_var
           /\ df' = df
           /\ cph' = cph
           /\ obj_var' = obj_var ]_vars

OutOfRangeRefused ==
  /\ last_op.op = "refresh"
  /\ last_op.outcome = "index_error"
  /\ message.kind = "error"
  /\ obj_var = IntText(-1)
  /\ view.surv # <<>>
  /\ view.surv[1].idx = 1

\* C5: after regenerate, from any state of the event loop, the dataset has
\* exactly 150 records, the model is the one fitted from it, the selected
\* index is 0, the spinbox ranges over 0..149 and every view has been
\* recomputed for record 0 of the new dataset without raising.
RegenerateResetsSession ==
  last_op.op = "regenerate" =>
    /\ last_op.outcome = "ok"
    /\ message = NoMessage
    /\ LenDf(df) = RegenN
    /\ cph = train_cox_model(df)
    /\ obj_var = IntText(0)
    /\ spin_to = RegenN - 1
    /\ view.details # <<>>
    /\ view.details[1].full_row = df.rows[1]
    /\ ViewsCurrent

RegeneratedFromIndexPastEnd ==
  /\ last_op.op = "regenerate"
  /\ last_op.reset_from = <<IntText(RegenN)>>
  /\ source_label = "random data"
  /\ LenDf(df) = RegenN
  /\ obj_var = IntText(0)
  /\ view.surv # <<>>
  /\ view.surv[1].idx = 0
  /\ id_var = Str(1)

\* C6: after startup with a dataset that passed the required-column check,
\* with or without the identifier, name and category columns, every record
\* has a name and a category and startup did not fail for lack of an
\* optional column; a back-filled or synthesized category is Generator
\* above 6000, Substation above 5200 up to 6000, Line otherwise.
OptionalColumnsBackfilled ==
  /\ pc = "crashed" => message.detail # <<"KeyError">>
  /\ pc = "running" =>
       /\ {NAME_COL, TYPE_COL} \subseteq df.columns
       /\ \A i \in 1..LenDf(df) :
            LET p == df.rows[i][POWER_COL] IN
            df.rows[i][TYPE_COL] \in
              {"Transformer",
               IF p > 6000 THEN "Generator"
               ELSE IF p > 5200 /\ p <= 6000 THEN "Substation"
               ELSE "Line"}

\* C7: the grouped view draws no curve for an empty group and its groups
\* partition the dataset: each record is in exactly one group, keyed by the
\* covariate's value when it has at most 3 distinct values and by one of
\* at most three quantile buckets (Low, Medium, High) when it has more.
GroupsPartitionDataset ==
  /\ pc = "crashed" => message.detail # <<"ValueError">>
  /\ (/\ pc = "running"
      /\ last_op.op \in {"startup", "refresh", "regenerate"}
      /\ last_op.outcome # "index_error") =>
       /\ view.groups # <<>>
       /\ LET curves == view.groups[1].curves
              vals == Column(df, view.groups[1].var)
          IN
          /\ \A g \in DOMAIN curves : curves[g] # {}
          /\ \A i \in 1..LenDf(df) :
               Cardinality({g \in DOMAIN curves : i \in curves[g]}) = 1
          /\ IF nunique(vals) > 3
             THEN DOMAIN curves \subseteq {"Low", "Medium", "High"}
             ELSE \A i \in 1..LenDf(df) : i \in curves[Str(vals[i])]

\* ------------------------------------------ the derived-view functions
\* The functions update_dashboard computes its views with, applied to
\* inputs drawn from bounded sets: a partial hazard, a survival curve with
\* probabilities on both sides of one half, a load column and a row of it.
CurveProbabilities == {0, 49, 50, 51, 100}

Curves ==
  UNION {{[k \in 1..n |-> [t |-> 10 * k, p |-> ps[k]]] :
            ps \in [1..n -> CurveProbabilities]} : n \in 1..MaxCurve}

LoadColumns == UNION {[1..n -> 0..MaxProbeVal] : n \in 1..MaxProbeRows}

\* Hazard ratios (hundredths) on both sides of 0.9, 1 and 1.1.
HazardRatioSamples == {80, 89, 90, 100, 110, 111, 125}

\* Coefficient tables of 0..MaxCoef covariates.
CoefficientTables ==
  UNION {{[k \in 1..n |-> [feature |-> FEATURE_COLUMNS[k], hr |-> hs[k]]] :
            hs \in [1..n -> HazardRatioSamples]} : n \in 0..MaxCoef}

DerivedInit ==
  /\ pc = "probe"
  /\ df = EmptyDf
  /\ cph = NoModel
  /\ source_label = ""
  /\ obj_var = IntText(0)
  /\ spin_to = 0
  /\ id_var = <<>>
  /\ id_values = <<>>
  /\ group_var = ""
  /\ groupable_vars = <<>>
  /\ view = BlankView
  /\ message = NoMessage
  /\ show_details = FALSE
  /\ last_op = [op |-> "none", outcome |-> "ok", reset_from |-> <<>>]
  /\ \/ \E x \in 0..MaxHazard :
          probe = [fn |-> "risk_bucket", arg |-> x, out |-> <<>>]
     \/ \E curve \in Curves :
          probe = [fn |-> "median_survival_time", arg |-> curve, out |-> <<>>]
     \/ \E loads \in LoadColumns : \E idx \in 0..(Len(loads) - 1) :
          probe = [fn |-> "normalized_load",
                   arg |-> [loads |-> loads, idx |-> idx], out |-> <<>>]
     \/ \E table \in CoefficientTables :
          probe = [fn |-> "report", arg |-> table, out |-> <<>>]

SessionVars ==
  <<pc, df, cph, source_label, obj_var, spin_to, id_var, id_values, group_var,
    groupable_vars, view, message, show_details, last_op>>

\* Lines 340-347 on the drawn hazard.
ApplyRiskBucket ==
  /\ pc = "probe"
  /\ probe.fn = "risk_bucket"
  /\ probe.out = <<>>
  /\ probe' = [probe EXCEPT !.out = <<RiskBucket(probe.arg)>>]
  /\ UNCHANGED SessionVars

\* Lines 265-269 on the drawn curve.
ApplyMedianSurvivalTime ==
  /\ pc = "probe"
  /\ probe.fn = "median_survival_time"
  /\ probe.out = <<>>
  /\ probe' = [probe EXCEPT !.out = <<MedianSurvivalTime(probe.arg)>>]
  /\ UNCHANGED SessionVars

\* Lines 351-357 on the drawn load column and row.
ApplyNormalizedLoad ==
  /\ pc = "probe"
  /\ probe.fn = "normalized_load"
  /\ probe.out = <<>>
  /\ LET loads == probe.arg.loads IN
     probe' = [probe EXCEPT !.out =
                 <<NormalizedLoad(loads[probe.arg.idx + 1], SeqMin(loads), SeqMax(loads))>>]
  /\ UNCHANGED SessionVars

\* Lines 400-424 on the drawn coefficient table.
ApplyReport ==
  /\ pc = "probe"
  /\ probe.fn = "report"
  /\ probe.out = <<>>
  /\ probe' = [probe EXCEPT !.out = <<Report(probe.arg)>>]
  /\ UNCHANGED SessionVars

DerivedNext ==
  \/ ApplyRiskBucket
  \/ ApplyMedianSurvivalTime
  \/ ApplyNormalizedLoad
  \/ ApplyReport

DerivedSpec == DerivedInit /\ [][DerivedNext]_vars

\* C8: the risk bucket is Low exactly when the partial hazard is below
\* 0.8, High exactly when it is 1.2 or more, Moderate otherwise: 0.79 is
\* Low, 0.8 and 1.19 are Moderate, 1.2 is High.
RiskBucketThresholds ==
  (probe.fn = "risk_bucket" /\ probe.out # <<>>) =>
    LET x == probe.arg
        bucket == probe.out[1]
    IN /\ bucket \in {"Low", "Moderate", "High"}
       /\ bucket = "Low" <=> x < 80
       /\ bucket = "High" <=> x >= 120
       /\ bucket = "Moderate" <=> (x >= 80 /\ x < 120)
       /\ x = 79 => bucket = "Low"
       /\ x \in {80, 119} => bucket = "Moderate"
       /\ x = 120 => bucket = "High"

RiskBucketAtLowerThreshold ==
  probe = [fn |-> "risk_bucket", arg |-> 80, out |-> <<"Moderate">>]

\* C9: the median survival time of a time-ordered curve is absent exactly
\* when no point has probability <= 0.5, and is otherwise the time of the
\* first point whose probability is <= 0.5.
MedianIsFirstCrossing ==
  (probe.fn = "median_survival_time" /\ probe.out # <<>>) =>
    LET curve == probe.arg
        t50 == probe.out[1]
        hits == {k \in DOMAIN curve : curve[k].p <= 50}
    IN /\ t50 = <<>> <=> hits = {}
       /\ hits # {} =>
            \E k \in hits :
              /\ \A j \in hits : k <= j
              /\ t50 = <<curve[k].t>>

MedianAtSecondPoint ==
  /\ probe.fn = "median_survival_time"
  /\ probe.out = << <<20>> >>
  /\ Len(probe.arg) = 3
  /\ probe.arg[1].p = 51
  /\ probe.arg[2].p = 50
  /\ probe.arg[3].p = 0

\* C10: the normalized load of a record is 100 * (load - min) / (max - min)
\* over the dataset's smallest and largest load and lies in [0, 100]: 0 at
\* the minimum and 100 at the maximum when two loads differ, 0 for every
\* record when all loads are equal.
NormalizedLoadIsLinearRescale ==
  (probe.fn = "normalized_load" /\ probe.out # <<>>) =>
    LET loads == probe.arg.loads
        load == loads[probe.arg.idx + 1]
        pct == probe.out[1]
        lo == CHOOSE v \in SeqToSet(loads) : \A w \in SeqToSet(loads) : v <= w
        hi == CHOOSE v \in SeqToSet(loads) : \A w \in SeqToSet(loads) : v >= w
    IN /\ pct.den > 0
       /\ pct.num >= 0
       /\ pct.num <= 100 * pct.den
       /\ hi > lo => pct.num * (hi - lo) = 100 * (load - lo) * pct.den
       /\ (hi > lo /\ load = lo) => pct.num = 0
       /\ (hi > lo /\ load = hi) => pct.num = 100 * pct.den
       /\ hi = lo => pct.num = 0

LoadBetweenMinimumAndMaximum ==
  /\ probe.fn = "normalized_load"
  /\ probe.arg = [loads |-> <<1, 2, 3>>, idx |-> 1]
  /\ probe.out = <<[num |-> 100, den |-> 2]>>

\* C11: for a non-empty coefficient table the report lists every covariate
\* exactly once, in descending order of |hazard ratio - 1|, names the first
\* of that order as the one with the largest effect, and classifies a
\* covariate as increasing risk exactly when its hazard ratio is above 1.1,
\* decreasing exactly when below 0.9 and negligible otherwise, with percent
\* effect (hazard ratio - 1) * 100; for an empty table the report is the
\* placeholder.
ReportRanksEffects ==
  (probe.fn = "report" /\ probe.out # <<>>) =>
    LET table == probe.arg
        report == probe.out[1]
        lines == report.lines
        dev(h) == IF h >= 100 THEN h - 100 ELSE 100 - h
    IN
    IF table = <<>>
    THEN report.placeholder /\ lines = <<>>
    ELSE
      /\ ~report.placeholder
      /\ Len(lines) = Len(table)
      /\ \A i \in DOMAIN table :
           Cardinality({k \in DOMAIN lines :
                          lines[k].feature = table[i].feature}) = 1
      /\ \A k \in DOMAIN lines :
           \E i \in DOMAIN table :
             lines[k].feature = table[i].feature /\ lines[k].hr = table[i].hr
      /\ \A k \in DOMAIN lines : \A j \in DOMAIN lines :
           k < j => dev(lines[k].hr) >= dev(lines[j].hr)
      /\ report.top = <<lines[1].feature>>
      /\ \A k \in DOMAIN lines :
           /\ lines[k].effect = "increases" <=> lines[k].hr > 110
           /\ lines[k].effect = "decreases" <=> lines[k].hr < 90
           /\ lines[k].effect = "negligible" <=>
                (lines[k].hr >= 90 /\ lines[k].hr <= 110)
           /\ lines[k].percent = lines[k].hr - 100

ReportReordersTable ==
  /\ probe.fn = "report"
  /\ probe.out # <<>>
  /\ Len(probe.arg) = 3
  /\ probe.arg[1].hr = 110
  /\ probe.arg[2].hr = 89
  /\ probe.arg[3].hr = 125
  /\ probe.out[1].top = <<probe.arg[3].feature>>
  /\ probe.out[1].lines[2].effect = "decreases"
  /\ probe.out[1].lines[3].effect = "negligible"

====
